---- MODULE Spec2Model ----
(***************************************************************************)
(* Model of the agent memory manager (agent_memory.py), its JSONL archive  *)
(* (history_store.py) and the summarizer adapter (summarizer.py).          *)
(*                                                                         *)
(* Text is a sequence of characters.  A character is a one-character       *)
(* string; a few multi-character tokens ("user", "i1", "t1", "[score=")    *)
(* stand for runs of characters that no operation of the model splits.     *)
(***************************************************************************)
EXTENDS Integers, Sequences, FiniteSets, TLC

(***************************************************************************)
(* Bounds of the model.                                                    *)
(***************************************************************************)
\* turns one manager records over a run (add_user / add_assistant calls)
MaxAdds == 3
\* largest max_turns the configuration is drawn from
MaxCfgTurns == 3
\* records one direct append call of the store carries
MaxBatch == 2
\* records written to the store by direct append calls over a run
MaxRecords == 2
\* failed I/O or summarizer calls over a run
MaxFailures == 1

(***************************************************************************)
(* Program constants.                                                      *)
(***************************************************************************)
\* _rough_tokens: ~4 chars/token
CharsPerToken == 4
\* _compact: only the last 10 active turns are summarized
RecentWindow == 10

(***************************************************************************)
(* Text helpers: str.strip, str.lower, slicing, str.count.                 *)
(***************************************************************************)
None == <<"None">>

IsSpace(c) == c \in {" ", "\n"}

Max(a, b) == IF a >= b THEN a ELSE b

Min(a, b) == IF a <= b THEN a ELSE b

RECURSIVE LStrip(_)
LStrip(s) == IF s # <<>> /\ IsSpace(Head(s)) THEN LStrip(Tail(s)) ELSE s

RECURSIVE RStrip(_)
RStrip(s) ==
    IF s # <<>> /\ IsSpace(s[Len(s)]) THEN RStrip(SubSeq(s, 1, Len(s) - 1)) ELSE s

\* str.strip()
Strip(s) == RStrip(LStrip(s))

LowerChar(c) ==
    CASE c = "A" -> "a"
      [] c = "B" -> "b"
      [] OTHER -> c

\* str.lower()
Lower(s) == [i \in 1..Len(s) |-> LowerChar(s[i])]

\* s[:n] for n >= 0
Take(s, n) == SubSeq(s, 1, Min(n, Len(s)))

\* s[-n:] for n >= 1
LastN(s, n) == SubSeq(s, Max(1, Len(s) - n + 1), Len(s))

\* does q occur in s at position i
MatchAt(s, q, i) == i + Len(q) - 1 <= Len(s) /\ SubSeq(s, i, i + Len(q) - 1) = q

RECURSIVE CountFrom(_, _, _)
CountFrom(s, q, i) ==
    IF i + Len(q) - 1 > Len(s) THEN 0
    ELSE IF MatchAt(s, q, i) THEN 1 + CountFrom(s, q, i + Len(q))
    ELSE CountFrom(s, q, i + 1)

\* str.count(q) for a non-empty q: scan left to right, resume after each match
Count(s, q) == CountFrom(s, q, 1)

RECURSIVE Concat(_)
Concat(ss) == IF ss = <<>> THEN <<>> ELSE Head(ss) \o Concat(Tail(ss))

RECURSIVE Join(_, _)
Join(sep, ss) ==
    IF ss = <<>> THEN <<>>
    ELSE IF Len(ss) = 1 THEN ss[1]
    ELSE ss[1] \o sep \o Join(sep, Tail(ss))

(***************************************************************************)
(* Turns and their JSONL form.  A turn is the dict built by _add_turn;     *)
(* role, ts and id are one-token texts.  json.dumps writes the four fields *)
(* in order (the key names are left out of the model's line format), with  *)
(* every text quoted and its quote, backslash and newline escaped.         *)
(***************************************************************************)
User == <<"user">>

Assistant == <<"assistant">>

System == <<"system">>

Roles == {User, Assistant}

\* uuid.uuid4().hex of the n-th turn made: distinct for distinct n
IdOf(n) ==
    <<<<"i1", "i2", "i3", "i4", "i5", "i6", "i7", "i8",
        "i9", "i10", "i11", "i12", "i13", "i14", "i15", "i16">>[n]>>

\* time.time() at the n-th turn made, as a JSON number token
Stamps ==
    <<"t1", "t2", "t3", "t4", "t5", "t6", "t7", "t8",
      "t9", "t10", "t11", "t12", "t13", "t14", "t15", "t16">>

TsOf(n) == Stamps[n]

IsNumber(tok) == \E n \in 1..Len(Stamps) : tok = Stamps[n]

Turn(role, content, n) ==
    [role |-> role, content |-> content, ts |-> TsOf(n), id |-> IdOf(n)]

EscapeChar(c) ==
    CASE c = "\"" -> <<"\\", "\"">>
      [] c = "\\" -> <<"\\", "\\">>
      [] c = "\n" -> <<"\\", "n">>
      [] OTHER -> <<c>>

\* a writer that leaves quotes, backslashes and newlines as they are
EscapeNothing(s) == s

Escape(s) == Concat([i \in 1..Len(s) |-> EscapeChar(s[i])])

EncStr(s) == <<"\"">> \o Escape(s) \o <<"\"">>

\* json.dumps(t, ensure_ascii=False)
dumps(t) ==
    <<"{">> \o EncStr(t.role) \o <<",">> \o EncStr(t.content) \o <<",">>
        \o <<t.ts>> \o <<",">> \o EncStr(t.id) \o <<"}">>

At(l, i) == IF i \in 1..Len(l) THEN l[i] ELSE "EOF"

Unescape(c) == IF c = "n" THEN "\n" ELSE c

\* the JSON string whose opening quote is just before position i
RECURSIVE ScanStr(_, _, _)
ScanStr(l, i, acc) ==
    IF i > Len(l) \/ l[i] = "\n" THEN [ok |-> FALSE, val |-> <<>>, next |-> i]
    ELSE IF l[i] = "\"" THEN [ok |-> TRUE, val |-> acc, next |-> i + 1]
    ELSE IF l[i] = "\\"
        THEN IF At(l, i + 1) \in {"\\", "\"", "n"}
             THEN ScanStr(l, i + 2, Append(acc, Unescape(l[i + 1])))
             ELSE [ok |-> FALSE, val |-> <<>>, next |-> i]
    ELSE ScanStr(l, i + 1, Append(acc, l[i]))

ParseStr(l, i) ==
    IF At(l, i) = "\"" THEN ScanStr(l, i + 1, <<>>)
    ELSE [ok |-> FALSE, val |-> <<>>, next |-> i]

BadRow == [role |-> <<>>, content |-> <<>>, ts |-> "EOF", id |-> <<>>]

\* json.loads(line): the row, or a JSONDecodeError (ok = FALSE)
loads(line) ==
    LET l == IF line # <<>> /\ line[Len(line)] = "\n"
             THEN SubSeq(line, 1, Len(line) - 1) ELSE line
        r == ParseStr(l, 2)
        c == ParseStr(l, r.next + 1)
        d == ParseStr(l, c.next + 3)
        good == /\ At(l, 1) = "{"
                /\ r.ok /\ At(l, r.next) = ","
                /\ c.ok /\ At(l, c.next) = ","
                /\ IsNumber(At(l, c.next + 1)) /\ At(l, c.next + 2) = ","
                /\ d.ok /\ At(l, d.next) = "}" /\ d.next = Len(l)
    IN  IF good
        THEN [ok |-> TRUE,
              row |-> [role |-> r.val, content |-> c.val,
                       ts |-> l[c.next + 1], id |-> d.val]]
        ELSE [ok |-> FALSE, row |-> BadRow]

(***************************************************************************)
(* JsonlHistoryStore.  A session's file is NoFile until first opened for   *)
(* append, then the text written so far.                                   *)
(***************************************************************************)
NoFile == <<"NoFile">>

\* the text one append call writes: one line per turn
BatchText(turns) == Concat([i \in 1..Len(turns) |-> dumps(turns[i]) \o <<"\n">>])

\* how the I/O of one append call can end: "ok"; "open" (the file could not
\* be opened, nothing written); or "write": the write failed after the first
\* cut characters of the batch reached the file
IoOk == [kind |-> "ok", cut |-> 0]

\* where a failed write of a batch stops: before its last record (the records
\* before it are whole) or halfway through it (that record is torn)
WriteCuts(turns) ==
    IF turns = <<>> THEN {}
    ELSE LET start == Len(BatchText(SubSeq(turns, 1, Len(turns) - 1)))
         IN  {start, start + Len(dumps(turns[Len(turns)])) \div 2}

IoOutcomes(turns) ==
    {IoOk, [kind |-> "open", cut |-> 0]}
        \cup {[kind |-> "write", cut |-> k] : k \in WriteCuts(turns)}

\* JsonlHistoryStore.append on one file: the file afterwards, and whether it raised
append(file, turns, io) ==
    LET old == IF file = NoFile THEN <<>> ELSE file
    IN  IF io.kind = "ok" THEN [ok |-> TRUE, file |-> old \o BatchText(turns)]
        ELSE IF io.kind = "open" THEN [ok |-> FALSE, file |-> file]
        ELSE [ok |-> FALSE, file |-> old \o Take(BatchText(turns), io.cut)]

\* iterating a text file: lines keep their newline, the last may lack one
RECURSIVE LinesFrom(_, _)
LinesFrom(f, start) ==
    IF start > Len(f) THEN <<>>
    ELSE LET ends == {i \in start..Len(f) : f[i] = "\n"}
         IN  IF ends = {} THEN <<SubSeq(f, start, Len(f))>>
             ELSE LET end == CHOOSE i \in ends : \A j \in ends : i <= j
                  IN  <<SubSeq(f, start, end)>> \o LinesFrom(f, end + 1)

Lines(f) == LinesFrom(f, 1)

\* the read loop: rows.append(json.loads(line)), up to the first line that fails
RECURSIVE DecodeLines(_, _)
DecodeLines(ls, rows) ==
    IF ls = <<>> THEN [ok |-> TRUE, rows |-> rows]
    ELSE LET r == loads(Head(ls))
         IN  IF r.ok THEN DecodeLines(Tail(ls), Append(rows, r.row))
             ELSE [ok |-> FALSE, rows |-> <<>>]

\* JsonlHistoryStore.read_all: the rows, or the first line's decode error raised
read_all(file) ==
    IF file = NoFile THEN [ok |-> TRUE, rows |-> <<>>]
    ELSE DecodeLines(Lines(file), <<>>)

\* a sort that puts a hit before the hits of its own score
RECURSIVE InsertHitBeforeTies(_, _)
InsertHitBeforeTies(sorted, h) ==
    IF sorted = <<>> THEN <<h>>
    ELSE IF Head(sorted).score > h.score
         THEN <<Head(sorted)>> \o InsertHitBeforeTies(Tail(sorted), h)
         ELSE <<h>> \o sorted

\* list.sort(key=score, reverse=True): stable, descending
RECURSIVE InsertHit(_, _)
InsertHit(sorted, h) ==
    IF sorted = <<>> THEN <<h>>
    ELSE IF Head(sorted).score >= h.score
         THEN <<Head(sorted)>> \o InsertHit(Tail(sorted), h)
         ELSE <<h>> \o sorted

RECURSIVE SortHits(_)
SortHits(hits) ==
    IF hits = <<>> THEN <<>>
    ELSE InsertHit(SortHits(SubSeq(hits, 1, Len(hits) - 1)), hits[Len(hits)])

\* hits[:k], k of either sign
SliceTo(s, k) == IF k >= 0 THEN Take(s, k) ELSE Take(s, Max(0, Len(s) + k))

QueryKey(query) == Lower(Strip(IF query = None THEN <<>> ELSE query))

RECURSIVE ScoreRows(_, _)
ScoreRows(rows, q) ==
    IF rows = <<>> THEN <<>>
    ELSE LET score == Count(Lower(Head(rows).content), q)
         IN  (IF score > 0 THEN <<[score |-> score, turn |-> Head(rows)]>> ELSE <<>>)
                 \o ScoreRows(Tail(rows), q)

\* a search that reads the archive before it looks at the query
KeywordSearchReadsFirst(file, query, top_k) ==
    LET q == QueryKey(query)
        r == read_all(file)
    IN  IF ~r.ok THEN [ok |-> FALSE, hits |-> <<>>]
        ELSE IF q = <<>> THEN [ok |-> TRUE, hits |-> <<>>]
        ELSE [ok |-> TRUE, hits |-> SliceTo(SortHits(ScoreRows(r.rows, q)), top_k)]

\* JsonlHistoryStore.keyword_search: the hits, or read_all's error raised
keyword_search(file, query, top_k) ==
    LET q == QueryKey(query)
    IN  IF q = <<>> THEN [ok |-> TRUE, hits |-> <<>>]
        ELSE LET r == read_all(file)
             IN  IF ~r.ok THEN [ok |-> FALSE, hits |-> <<>>]
                 ELSE [ok |-> TRUE, hits |-> SliceTo(SortHits(ScoreRows(r.rows, q)), top_k)]

(***************************************************************************)
(* LlmSummarizer.  llm_client is the caller's function: it returns some    *)
(* text or raises.                                                         *)
(***************************************************************************)
LlmOutputs == {<<>>, <<" ", "a", " ", "b", " ">>}

LlmOk(text) == [raises |-> FALSE, text |-> text]

LlmRaises == [raises |-> TRUE, text |-> <<>>]

LlmOutcomes == {LlmOk(t) : t \in LlmOutputs} \cup {LlmRaises}

RECURSIVE TranscriptLines(_)
TranscriptLines(turns) ==
    IF turns = <<>> THEN <<>>
    ELSE LET t == Head(turns)
         IN  (IF t.role \in {User, Assistant} /\ Strip(t.content) # <<>>
              THEN <<t.role \o <<": ">> \o Strip(t.content)>> ELSE <<>>)
                 \o TranscriptLines(Tail(turns))

\* the user prompt LlmSummarizer.compact hands to llm_client
UserPrompt(previous_summary, recent_turns) ==
    <<"Previous state summary (may be empty):\n">> \o Strip(previous_summary)
        \o <<"\n", "\n", "Recent turns:\n">>
        \o Join(<<"\n">>, TranscriptLines(recent_turns))
        \o <<"\n", "\n", "Update the state summary now.">>

\* LlmSummarizer.compact: the stripped reply, or llm_client's error raised
compact(previous_summary, recent_turns, llm) ==
    IF llm.raises THEN [ok |-> FALSE, text |-> <<>>]
    ELSE [ok |-> TRUE, text |-> Strip(llm.text)]

(***************************************************************************)
(* AgentMemoryManager.                                                     *)
(***************************************************************************)
Sessions == {"s1", "s2"}

\* the session the modelled manager was constructed for
session_id == "s1"

\* the inputs the operations are called with
Contents == {<<"b", "\"", "a", "\\", "\n", "a", " ", " ">>}

SystemPrompts == {<<" ", "s", " ">>}

UserMessages == {<<"u">>}

AssistantContents == {<<"a", "A", "a">>}

HistoryQueries == {None, <<" ">>, <<" ", "A", " ">>}

MaxCfgTokens == 3

Configs ==
    [max_turns : 1..MaxCfgTurns, max_tokens : {MaxCfgTokens},
     search_top_k : {2}, summary_max_chars : {2}]

VARIABLES cfg, active_turns, rolling_summary, files, made, fails, written, last,
          writers

vars == <<cfg, active_turns, rolling_summary, files, made, fails, written, last,
          writers>>

_rough_tokens(text) == Max(1, Len(text) \div CharsPerToken)

RECURSIVE _estimate_tokens(_)
_estimate_tokens(turns) ==
    IF turns = <<>> THEN 0
    ELSE _rough_tokens(Head(turns).content) + _estimate_tokens(Tail(turns))

\* a policy that forgets the token threshold
ShouldCompactTurnsOnly(active, c) == Len(active) >= c.max_turns

\* a policy that waits for the turn count to pass max_turns
ShouldCompactPastTurns(active, c) ==
    \/ Len(active) > c.max_turns
    \/ _estimate_tokens(active) >= c.max_tokens

\* a policy that waits for the estimate to pass max_tokens
ShouldCompactPastTokens(active, c) ==
    \/ Len(active) >= c.max_turns
    \/ _estimate_tokens(active) > c.max_tokens

_should_compact(active, c) ==
    \/ Len(active) >= c.max_turns
    \/ _estimate_tokens(active) >= c.max_tokens

\* a slice that hands the summarizer every active turn
RecentTakesAll(active) == active

\* the slice of the active turns handed to the summarizer
Recent(active) ==
    IF Len(active) > RecentWindow THEN LastN(active, RecentWindow) ELSE active

\* a compaction that stores an empty summary when the summarizer fails
CompactBlanksSummaryOnFailure(active, summary, file, c, io, llm) ==
    IF active = <<>>
    THEN [ok |-> TRUE, err |-> "", active_turns |-> active, rolling_summary |-> summary,
          file |-> file, appended |-> FALSE, calls |-> <<>>]
    ELSE LET a == append(file, active, io)
             recent == Recent(active)
             new_summary == compact(summary, recent, llm)
             call == [previous_summary |-> summary, recent_turns |-> recent,
                      user_prompt |-> UserPrompt(summary, recent),
                      returned |-> new_summary]
         IN  IF ~a.ok
             THEN [ok |-> FALSE, err |-> "append", active_turns |-> active,
                   rolling_summary |-> summary, file |-> a.file,
                   appended |-> FALSE, calls |-> <<>>]
             ELSE IF ~new_summary.ok
             THEN [ok |-> FALSE, err |-> "summarizer", active_turns |-> <<>>,
                   rolling_summary |-> <<>>, file |-> a.file,
                   appended |-> TRUE, calls |-> <<call>>]
             ELSE [ok |-> TRUE, err |-> "", active_turns |-> <<>>,
                   rolling_summary |-> Strip(SliceTo(new_summary.text, c.summary_max_chars)),
                   file |-> a.file, appended |-> TRUE, calls |-> <<call>>]

\* a compaction that clears the active set although the append failed
CompactClearsOnAppendFailure(active, summary, file, c, io, llm) ==
    IF active = <<>>
    THEN [ok |-> TRUE, err |-> "", active_turns |-> active, rolling_summary |-> summary,
          file |-> file, appended |-> FALSE, calls |-> <<>>]
    ELSE LET a == append(file, active, io)
             recent == Recent(active)
             new_summary == compact(summary, recent, llm)
             call == [previous_summary |-> summary, recent_turns |-> recent,
                      user_prompt |-> UserPrompt(summary, recent),
                      returned |-> new_summary]
         IN  IF ~a.ok
             THEN [ok |-> FALSE, err |-> "append", active_turns |-> <<>>,
                   rolling_summary |-> summary, file |-> a.file,
                   appended |-> FALSE, calls |-> <<>>]
             ELSE IF ~new_summary.ok
             THEN [ok |-> FALSE, err |-> "summarizer", active_turns |-> active,
                   rolling_summary |-> summary, file |-> a.file,
                   appended |-> TRUE, calls |-> <<call>>]
             ELSE [ok |-> TRUE, err |-> "", active_turns |-> <<>>,
                   rolling_summary |-> Strip(SliceTo(new_summary.text, c.summary_max_chars)),
                   file |-> a.file, appended |-> TRUE, calls |-> <<call>>]

\* a compaction without the check for an empty active set
CompactSkipsEmptyCheck(active, summary, file, c, io, llm) ==
    LET a == append(file, active, io)
        recent == Recent(active)
        new_summary == compact(summary, recent, llm)
        call == [previous_summary |-> summary, recent_turns |-> recent,
                 user_prompt |-> UserPrompt(summary, recent),
                 returned |-> new_summary]
    IN  IF ~a.ok
        THEN [ok |-> FALSE, err |-> "append", active_turns |-> active,
              rolling_summary |-> summary, file |-> a.file,
              appended |-> FALSE, calls |-> <<>>]
        ELSE IF ~new_summary.ok
        THEN [ok |-> FALSE, err |-> "summarizer", active_turns |-> active,
              rolling_summary |-> summary, file |-> a.file,
              appended |-> TRUE, calls |-> <<call>>]
        ELSE [ok |-> TRUE, err |-> "", active_turns |-> <<>>,
              rolling_summary |-> Strip(SliceTo(new_summary.text, c.summary_max_chars)),
              file |-> a.file, appended |-> TRUE, calls |-> <<call>>]

\* a compaction that strips the summary before it cuts it to summary_max_chars
CompactStripsBeforeCut(active, summary, file, c, io, llm) ==
    IF active = <<>>
    THEN [ok |-> TRUE, err |-> "", active_turns |-> active, rolling_summary |-> summary,
          file |-> file, appended |-> FALSE, calls |-> <<>>]
    ELSE LET a == append(file, active, io)
             recent == Recent(active)
             new_summary == compact(summary, recent, llm)
             call == [previous_summary |-> summary, recent_turns |-> recent,
                      user_prompt |-> UserPrompt(summary, recent),
                      returned |-> new_summary]
         IN  IF ~a.ok
             THEN [ok |-> FALSE, err |-> "append", active_turns |-> active,
                   rolling_summary |-> summary, file |-> a.file,
                   appended |-> FALSE, calls |-> <<>>]
             ELSE IF ~new_summary.ok
             THEN [ok |-> FALSE, err |-> "summarizer", active_turns |-> active,
                   rolling_summary |-> summary, file |-> a.file,
                   appended |-> TRUE, calls |-> <<call>>]
             ELSE [ok |-> TRUE, err |-> "", active_turns |-> <<>>,
                   rolling_summary |-> SliceTo(Strip(new_summary.text), c.summary_max_chars),
                   file |-> a.file, appended |-> TRUE, calls |-> <<call>>]

\* what one _compact call leaves: whether it returned (else which step raised),
\* the manager's fields, the session's file and the summarizer calls it made
_compact(active, summary, file, c, io, llm) ==
    IF active = <<>>
    THEN [ok |-> TRUE, err |-> "", active_turns |-> active, rolling_summary |-> summary,
          file |-> file, appended |-> FALSE, calls |-> <<>>]
    ELSE LET a == append(file, active, io)
             recent == Recent(active)
             new_summary == compact(summary, recent, llm)
             call == [previous_summary |-> summary, recent_turns |-> recent,
                      user_prompt |-> UserPrompt(summary, recent),
                      returned |-> new_summary]
         IN  IF ~a.ok
             THEN [ok |-> FALSE, err |-> "append", active_turns |-> active,
                   rolling_summary |-> summary, file |-> a.file,
                   appended |-> FALSE, calls |-> <<>>]
             ELSE IF ~new_summary.ok
             THEN [ok |-> FALSE, err |-> "summarizer", active_turns |-> active,
                   rolling_summary |-> summary, file |-> a.file,
                   appended |-> TRUE, calls |-> <<call>>]
             ELSE [ok |-> TRUE, err |-> "", active_turns |-> <<>>,
                   rolling_summary |-> Strip(SliceTo(new_summary.text, c.summary_max_chars)),
                   file |-> a.file, appended |-> TRUE, calls |-> <<call>>]

Digit(n) == <<"0", "1", "2", "3", "4", "5", "6", "7", "8", "9">>[n + 1]

\* str(float(n)) for a small whole n
FloatStr(n) == <<Digit(n), ".", "0">>

\* f"[score={h['score']}] {role}: {content}"
HitLine(h) ==
    <<"[score=">> \o FloatStr(h.score) \o <<"] ">> \o h.turn.role \o <<": ">>
        \o h.turn.content

SummaryPrefix == "Rolling summary (state):\n"

HistoryPrefix == "Potentially relevant history (treat as stale unless verified):\n"

Msg(role, content) == [role |-> role, content |-> content]

\* an assembly that puts the history before the active turns
MessagesHistoryFirst(system_prompt, user_message, active, summary, history_hits) ==
    <<Msg(System, Strip(system_prompt))>>
        \o (IF Strip(summary) # <<>>
            THEN <<Msg(System, <<SummaryPrefix>> \o Strip(summary))>> ELSE <<>>)
        \o (IF history_hits # <<>>
            THEN <<Msg(System, <<HistoryPrefix>>
                        \o Join(<<"\n", "\n">>,
                                [i \in 1..Len(history_hits) |-> HitLine(history_hits[i])]))>>
            ELSE <<>>)
        \o [i \in 1..Len(active) |-> Msg(active[i].role, active[i].content)]
        \o <<Msg(User, user_message)>>

\* the message list build_messages assembles
Messages(system_prompt, user_message, active, summary, history_hits) ==
    <<Msg(System, Strip(system_prompt))>>
        \o (IF Strip(summary) # <<>>
            THEN <<Msg(System, <<SummaryPrefix>> \o Strip(summary))>> ELSE <<>>)
        \o [i \in 1..Len(active) |-> Msg(active[i].role, active[i].content)]
        \o (IF history_hits # <<>>
            THEN <<Msg(System, <<HistoryPrefix>>
                        \o Join(<<"\n", "\n">>,
                                [i \in 1..Len(history_hits) |-> HitLine(history_hits[i])]))>>
            ELSE <<>>)
        \o <<Msg(User, user_message)>>

RECURSIVE HitTokens(_)
HitTokens(hits) ==
    IF hits = <<>> THEN 0
    ELSE _rough_tokens(Head(hits).turn.content) + HitTokens(Tail(hits))

\* a ledger that counts the injected history hits among the active turns
LedgerCountsHits(system_prompt, user_message, history_query, active, summary, history_hits, c) ==
    [session_id |-> session_id,
     token_estimate |->
         _rough_tokens(system_prompt) + _rough_tokens(summary)
             + _estimate_tokens(active) + HitTokens(history_hits)
             + _rough_tokens(user_message),
     included_summary |-> Strip(summary) # <<>>,
     included_active_turns |-> Len(active) + Len(history_hits),
     included_history_hits |-> Len(history_hits),
     notes |-> [history_query |-> history_query,
                guardrails |-> <<c.max_turns, c.max_tokens>>]]

\* the PromptLedger build_messages returns
Ledger(system_prompt, user_message, history_query, active, summary, history_hits, c) ==
    [session_id |-> session_id,
     token_estimate |->
         _rough_tokens(system_prompt) + _rough_tokens(summary)
             + _estimate_tokens(active) + HitTokens(history_hits)
             + _rough_tokens(user_message),
     included_summary |-> Strip(summary) # <<>>,
     included_active_turns |-> Len(active),
     included_history_hits |-> Len(history_hits),
     notes |-> [history_query |-> history_query,
                guardrails |-> <<c.max_turns, c.max_tokens>>]]

NoLedger ==
    [session_id |-> "", token_estimate |-> 0, included_summary |-> FALSE,
     included_active_turns |-> 0, included_history_hits |-> 0,
     notes |-> [history_query |-> None, guardrails |-> <<0, 0>>]]

(***************************************************************************)
(* The record of the last call: its arguments, the state it started from,  *)
(* how it ended and what it returned.                                      *)
(***************************************************************************)
NoArgs ==
    [session |-> session_id, content |-> <<>>, system_prompt |-> <<>>,
     user_message |-> <<>>, history_query |-> None, turns |-> <<>>, top_k |-> 0]

Pre ==
    [active_turns |-> active_turns, rolling_summary |-> rolling_summary,
     files |-> files, written |-> written]

NoCall ==
    [op |-> "init", ok |-> TRUE, err |-> "", args |-> NoArgs, pre |-> Pre,
     calls |-> <<>>, messages |-> <<>>, ledger |-> NoLedger, rows |-> <<>>, hits |-> <<>>]

\* the processes or threads that call the store's append at the same time, and
\* one that is not inside a call
Writers == {"w1", "w2"}

Idle == [pc |-> "idle", session |-> session_id, turns |-> <<>>, pos |-> 0]

\* the turns a session's file was given by append calls that returned, the
\* number of those calls that carried a turn, and whether every append call on
\* it so far returned
Written(w, turns, ok) ==
    IF ok THEN [turns |-> w.turns \o turns,
                batches |-> IF turns = <<>> THEN w.batches ELSE w.batches + 1,
                clean |-> w.clean]
    ELSE [turns |-> w.turns, batches |-> w.batches, clean |-> FALSE]

\* the manager and the store as constructed, nothing added or written yet
Constructed ==
    /\ active_turns = <<>>
    /\ rolling_summary = <<>>
    /\ files = [s \in Sessions |-> NoFile]
    /\ made = 0
    /\ fails = 0
    /\ written = [s \in Sessions |-> [turns |-> <<>>, batches |-> 0, clean |-> TRUE]]
    /\ last = [op |-> "init", ok |-> TRUE, err |-> "", args |-> NoArgs,
               pre |-> [active_turns |-> <<>>, rolling_summary |-> <<>>,
                        files |-> [s \in Sessions |-> NoFile],
                        written |-> [s \in Sessions |-> [turns |-> <<>>, batches |-> 0, clean |-> TRUE]]],
               calls |-> <<>>, messages |-> <<>>, ledger |-> NoLedger,
               rows |-> <<>>, hits |-> <<>>]
    /\ writers = [w \in Writers |-> Idle]

Init == cfg \in Configs /\ Constructed

\* an add that compacts on the spot when the set it leaves meets a threshold
AddTurnThenCompact(role, content) ==
    /\ \E added \in {Append(active_turns, Turn(role, content, made + 1))} :
       \E c \in {IF _should_compact(added, cfg)
                 THEN _compact(added, rolling_summary, files[session_id], cfg,
                               IoOk, LlmOk(<<>>))
                 ELSE [ok |-> TRUE, err |-> "", active_turns |-> added,
                       rolling_summary |-> rolling_summary, file |-> files[session_id],
                       appended |-> FALSE, calls |-> <<>>]} :
          /\ active_turns' = c.active_turns
          /\ rolling_summary' = c.rolling_summary
          /\ files' = [files EXCEPT ![session_id] = c.file]
          /\ written' = IF c.appended
                        THEN [written EXCEPT ![session_id] = Written(@, added, TRUE)]
                        ELSE written
    /\ made' = made + 1
    /\ last' = [NoCall EXCEPT !.op = IF role = User THEN "add_user" ELSE "add_assistant",
                              !.args.content = content]
    /\ UNCHANGED <<cfg, fails, writers>>

_add_turn(role, content) ==
    /\ active_turns' = Append(active_turns, Turn(role, content, made + 1))
    /\ made' = made + 1
    /\ last' = [NoCall EXCEPT !.op = IF role = User THEN "add_user" ELSE "add_assistant",
                              !.args.content = content]
    /\ UNCHANGED <<cfg, rolling_summary, files, fails, written, writers>>

add_user(content) == _add_turn(User, content)

add_assistant(content) == _add_turn(Assistant, content)

\* how the archive append of the compaction a build_messages call would run can
\* end, and then the summarizer's call: nothing to choose when the call does not
\* get that far, no failure once the run has had its failures
CompactIo ==
    IF _should_compact(active_turns, cfg) /\ active_turns # <<>>
    THEN (IF fails < MaxFailures THEN IoOutcomes(active_turns) ELSE {IoOk})
    ELSE {IoOk}

CompactLlm(io) ==
    IF _should_compact(active_turns, cfg) /\ active_turns # <<>> /\ io = IoOk
    THEN (IF fails < MaxFailures THEN LlmOutcomes ELSE LlmOutcomes \ {LlmRaises})
    ELSE {LlmRaises}

\* a build that records user_message as a turn of the active set
BuildRecordsUserMessage(system_prompt, user_message, history_query, io, llm) ==
    LET file == files[session_id]
        should == _should_compact(active_turns, cfg)
        writes == should /\ active_turns # <<>>
        compaction ==
            IF should
            THEN _compact(active_turns, rolling_summary, file, cfg, io, llm)
            ELSE [ok |-> TRUE, err |-> "", active_turns |-> active_turns,
                  rolling_summary |-> rolling_summary, file |-> file,
                  appended |-> FALSE, calls |-> <<>>]
    IN  /\ io \in CompactIo
        /\ llm \in CompactLlm(io)
        /\ \E c \in {compaction} :
           \E search \in {IF c.ok /\ history_query # None /\ history_query # <<>>
                          THEN keyword_search(c.file, history_query, cfg.search_top_k)
                          ELSE [ok |-> TRUE, hits |-> <<>>]} :
           \E history_hits \in {search.hits} :
              LET ok == c.ok /\ search.ok
                  call == [NoCall EXCEPT
                              !.op = "build_messages",
                              !.ok = ok,
                              !.err = IF ~c.ok THEN c.err
                                      ELSE IF ~search.ok THEN "search" ELSE "",
                              !.args.system_prompt = system_prompt,
                              !.args.user_message = user_message,
                              !.args.history_query = history_query,
                              !.calls = c.calls]
              IN  /\ fails' = IF ~c.ok THEN fails + 1 ELSE fails
                  /\ active_turns' = Append(c.active_turns,
                                           Turn(User, user_message, made + 1))
                  /\ rolling_summary' = c.rolling_summary
                  /\ files' = [files EXCEPT ![session_id] = c.file]
                  /\ written' = IF writes
                                THEN [written EXCEPT ![session_id] =
                                          Written(@, active_turns, c.appended)]
                                ELSE written
                  /\ last' = IF ok
                             THEN [call EXCEPT
                                      !.hits = history_hits,
                                      !.messages = Messages(system_prompt, user_message,
                                          c.active_turns, c.rolling_summary, history_hits),
                                      !.ledger = Ledger(system_prompt, user_message,
                                          history_query, c.active_turns, c.rolling_summary,
                                          history_hits, cfg)]
                             ELSE call
                  /\ UNCHANGED <<cfg, made, writers>>

\* a build that retrieves the history before it compacts
BuildSearchesBeforeCompaction(system_prompt, user_message, history_query, io, llm) ==
    LET file == files[session_id]
        should == _should_compact(active_turns, cfg)
        writes == should /\ active_turns # <<>>
        compaction ==
            IF should
            THEN _compact(active_turns, rolling_summary, file, cfg, io, llm)
            ELSE [ok |-> TRUE, err |-> "", active_turns |-> active_turns,
                  rolling_summary |-> rolling_summary, file |-> file,
                  appended |-> FALSE, calls |-> <<>>]
    IN  /\ io \in CompactIo
        /\ llm \in CompactLlm(io)
        /\ \E c \in {compaction} :
           \E search \in {IF c.ok /\ history_query # None /\ history_query # <<>>
                          THEN keyword_search(file, history_query, cfg.search_top_k)
                          ELSE [ok |-> TRUE, hits |-> <<>>]} :
           \E history_hits \in {search.hits} :
              LET ok == c.ok /\ search.ok
                  call == [NoCall EXCEPT
                              !.op = "build_messages",
                              !.ok = ok,
                              !.err = IF ~c.ok THEN c.err
                                      ELSE IF ~search.ok THEN "search" ELSE "",
                              !.args.system_prompt = system_prompt,
                              !.args.user_message = user_message,
                              !.args.history_query = history_query,
                              !.calls = c.calls]
              IN  /\ fails' = IF ~c.ok THEN fails + 1 ELSE fails
                  /\ active_turns' = c.active_turns
                  /\ rolling_summary' = c.rolling_summary
                  /\ files' = [files EXCEPT ![session_id] = c.file]
                  /\ written' = IF writes
                                THEN [written EXCEPT ![session_id] =
                                          Written(@, active_turns, c.appended)]
                                ELSE written
                  /\ last' = IF ok
                             THEN [call EXCEPT
                                      !.hits = history_hits,
                                      !.messages = Messages(system_prompt, user_message,
                                          c.active_turns, c.rolling_summary, history_hits),
                                      !.ledger = Ledger(system_prompt, user_message,
                                          history_query, c.active_turns, c.rolling_summary,
                                          history_hits, cfg)]
                             ELSE call
                  /\ UNCHANGED <<cfg, made, writers>>

\* AgentMemoryManager.build_messages: compaction when due, retrieval, assembly
build_messages(system_prompt, user_message, history_query, io, llm) ==
    LET file == files[session_id]
        should == _should_compact(active_turns, cfg)
        writes == should /\ active_turns # <<>>
        compaction ==
            IF should
            THEN _compact(active_turns, rolling_summary, file, cfg, io, llm)
            ELSE [ok |-> TRUE, err |-> "", active_turns |-> active_turns,
                  rolling_summary |-> rolling_summary, file |-> file,
                  appended |-> FALSE, calls |-> <<>>]
    IN  /\ io \in CompactIo
        /\ llm \in CompactLlm(io)
        /\ \E c \in {compaction} :
           \E search \in {IF c.ok /\ history_query # None /\ history_query # <<>>
                          THEN keyword_search(c.file, history_query, cfg.search_top_k)
                          ELSE [ok |-> TRUE, hits |-> <<>>]} :
           \E history_hits \in {search.hits} :
              LET ok == c.ok /\ search.ok
                  call == [NoCall EXCEPT
                              !.op = "build_messages",
                              !.ok = ok,
                              !.err = IF ~c.ok THEN c.err
                                      ELSE IF ~search.ok THEN "search" ELSE "",
                              !.args.system_prompt = system_prompt,
                              !.args.user_message = user_message,
                              !.args.history_query = history_query,
                              !.calls = c.calls]
              IN  /\ fails' = IF ~c.ok THEN fails + 1 ELSE fails
                  /\ active_turns' = c.active_turns
                  /\ rolling_summary' = c.rolling_summary
                  /\ files' = [files EXCEPT ![session_id] = c.file]
                  /\ written' = IF writes
                                THEN [written EXCEPT ![session_id] =
                                          Written(@, active_turns, c.appended)]
                                ELSE written
                  /\ last' = IF ok
                             THEN [call EXCEPT
                                      !.hits = history_hits,
                                      !.messages = Messages(system_prompt, user_message,
                                          c.active_turns, c.rolling_summary, history_hits),
                                      !.ledger = Ledger(system_prompt, user_message,
                                          history_query, c.active_turns, c.rolling_summary,
                                          history_hits, cfg)]
                             ELSE call
                  /\ UNCHANGED <<cfg, made, writers>>

Next ==
    \/ \E content \in Contents : made < MaxAdds /\ add_user(content)
    \/ \E content \in AssistantContents : made < MaxAdds /\ add_assistant(content)
    \/ \E system_prompt \in SystemPrompts, user_message \in UserMessages,
          history_query \in HistoryQueries :
          \E io \in CompactIo :
              \E llm \in CompactLlm(io) :
                  build_messages(system_prompt, user_message, history_query, io, llm)

Spec == Init /\ [][Next]_vars

(***************************************************************************)
(* The store called directly, on any session.                              *)
(***************************************************************************)
\* the (role, content) pairs direct append calls draw their turns from
(***************************************************************************)
(* The manager on degenerate inputs: a turn threshold of 0, which makes    *)
(* every build_messages call compact, also on an empty active set, or of   *)
(* 1; and history queries that are absent, empty or blank.                 *)
(***************************************************************************)
EdgeConfigs ==
    [max_turns : 0..1, max_tokens : {MaxCfgTokens},
     search_top_k : {2}, summary_max_chars : {2}]

EdgeQueries == {None, <<>>, <<" ">>}

EdgeInit == cfg \in EdgeConfigs /\ Constructed

EdgeNext ==
    \/ \E content \in Contents : made < MaxAdds /\ add_user(content)
    \/ \E content \in AssistantContents : made < MaxAdds /\ add_assistant(content)
    \/ \E system_prompt \in SystemPrompts, user_message \in UserMessages,
          history_query \in EdgeQueries :
          \E io \in CompactIo :
              \E llm \in CompactLlm(io) :
                  build_messages(system_prompt, user_message, history_query, io, llm)

EdgeSpec == EdgeInit /\ [][EdgeNext]_vars

(***************************************************************************)
(* The manager under long conversations: the roles alternate, the content  *)
(* is one short text, and the thresholds sit around the summarizer's       *)
(* window of recent turns, so that active sets smaller than, as large as   *)
(* and larger than the window get compacted.                               *)
(***************************************************************************)
MaxOverWindow == 2

WindowAdds == RecentWindow + MaxOverWindow

WindowConfigs ==
    [max_turns : (RecentWindow - 1)..WindowAdds, max_tokens : {2 * WindowAdds},
     search_top_k : {2}, summary_max_chars : {2}]

WindowInit == cfg \in WindowConfigs /\ Constructed

WindowNext ==
    \/ \E content \in AssistantContents :
          made < WindowAdds /\ made % 2 = 0 /\ add_user(content)
    \/ \E content \in AssistantContents :
          made < WindowAdds /\ made % 2 = 1 /\ add_assistant(content)
    \/ \E system_prompt \in SystemPrompts, user_message \in UserMessages,
          history_query \in {None} :
          \E io \in CompactIo :
              \E llm \in CompactLlm(io) :
                  build_messages(system_prompt, user_message, history_query, io, llm)

WindowSpec == WindowInit /\ [][WindowNext]_vars

StoreSamples ==
    { <<User, <<"a", "A", "a">>>>,
      <<Assistant, <<"\"", "\\", "\n", "a">>>> }

StoreQueries == {<<" ">>, <<" ", "A", " ">>, <<"a", "A">>}

MaxTopK == 2

\* the batches of n turns made next: ids and timestamps follow the ones made so far
Batches(n) ==
    {[i \in 1..n |-> Turn(p[i][1], p[i][2], made + i)] : p \in [1..n -> StoreSamples]}

StoreAppend(s, turns, io) ==
    /\ made + Len(turns) <= MaxRecords
    /\ \E a \in {append(files[s], turns, io)} :
        /\ ~a.ok => fails < MaxFailures
        /\ fails' = IF a.ok THEN fails ELSE fails + 1
        /\ files' = [files EXCEPT ![s] = a.file]
        /\ made' = made + Len(turns)
        /\ written' = [written EXCEPT ![s] = Written(@, turns, a.ok)]
        /\ last' = [NoCall EXCEPT !.op = "append", !.ok = a.ok,
                                  !.err = IF a.ok THEN "" ELSE "append",
                                  !.args.session = s, !.args.turns = turns]
        /\ UNCHANGED <<cfg, active_turns, rolling_summary, writers>>

StoreReadAll(s) ==
    \E r \in {read_all(files[s])} :
        /\ last' = [NoCall EXCEPT !.op = "read_all", !.ok = r.ok,
                                  !.err = IF r.ok THEN "" ELSE "read_all",
                                  !.args.session = s,
                                  !.rows = r.rows]
        /\ UNCHANGED <<cfg, active_turns, rolling_summary, files, made, fails, written,
                       writers>>

StoreKeywordSearch(s, query, top_k) ==
    \E r \in {keyword_search(files[s], query, top_k)} :
        /\ last' = [NoCall EXCEPT !.op = "keyword_search", !.ok = r.ok,
                                  !.err = IF r.ok THEN "" ELSE "read_all",
                                  !.args.session = s, !.args.history_query = query,
                                  !.args.top_k = top_k,
                                  !.hits = r.hits]
        /\ UNCHANGED <<cfg, active_turns, rolling_summary, files, made, fails, written,
                       writers>>

StoreNext ==
    \/ \E s \in Sessions, n \in 0..Min(MaxBatch, MaxRecords - made) :
          \E turns \in Batches(n) :
              \E io \in IoOutcomes(turns) : StoreAppend(s, turns, io)
    \/ \E s \in Sessions : StoreReadAll(s)
    \/ \E s \in Sessions, query \in StoreQueries, top_k \in 0..MaxTopK :
          StoreKeywordSearch(s, query, top_k)

StoreInit == Init /\ cfg.max_turns = 1

StoreSpec == StoreInit /\ [][StoreNext]_vars

(***************************************************************************)
(* Claims about the store, checked under StoreSpec.                        *)
(***************************************************************************)
\* the record of the last call, when it was a direct store call named op
StoreCall(op) == last.op = op

PreFile == last.pre.files[last.args.session]

PreWritten == last.pre.written[last.args.session]

SameTurn(row, t) == row.role = t.role /\ row.content = t.content /\ row.id = t.id

\* C9: after any number of append calls that returned, with batches of any size
\* (the empty one too), read_all returns the appended turns, all of them, in call
\* order and in-batch order, each equal to the turn appended on role, content and
\* id; on a session with no log it returns the empty sequence; and read_all leaves
\* every session's archive as it was.
ReadAllReturnsAppended ==
    /\ \A s \in Sessions :
          written[s].clean =>
              \A r \in {read_all(files[s])} :
                  /\ r.ok
                  /\ Len(r.rows) = Len(written[s].turns)
                  /\ \A i \in 1..Len(r.rows) : SameTurn(r.rows[i], written[s].turns[i])
    /\ StoreCall("read_all") =>
          /\ files = last.pre.files
          /\ PreFile = NoFile => last.ok /\ last.rows = <<>>
          /\ PreWritten.clean =>
                /\ last.ok
                /\ Len(last.rows) = Len(PreWritten.turns)
                /\ \A i \in 1..Len(last.rows) : SameTurn(last.rows[i], PreWritten.turns[i])

\* C9's case: read_all returned the records of more than one append call, the
\* content of one of them holding a quote, a backslash and a newline
ReadAllAfterSeveralAppends ==
    /\ StoreCall("read_all") /\ last.ok
    /\ PreWritten.clean /\ PreWritten.batches > 1
    /\ Len(last.rows) = Len(PreWritten.turns)
    /\ \E i \in 1..Len(last.rows) :
          {"\"", "\\", "\n"} \subseteq {last.rows[i].content[k] : k \in 1..Len(last.rows[i].content)}

\* the largest number of occurrences of q in text no two of which overlap
DisjointOccurrences(text, q) ==
    LET occ == {i \in 1..Len(text) : MatchAt(text, q, i)}
        apart(S) == \A i \in S, j \in S : i < j => j - i >= Len(q)
        sizes == {Cardinality(S) : S \in {T \in SUBSET occ : apart(T)}}
    IN  CHOOSE n \in sizes : \A m \in sizes : m <= n

RefScore(row, query) == DisjointOccurrences(Lower(row.content), Lower(Strip(query)))

\* the scored rows of score k, in archive order
RowsScoring(scored, k) == SelectSeq(scored, LAMBDA h : h.score = k)

\* the scored rows scoring k or less and more than 0: descending score, ties in
\* archive order
RECURSIVE Ranked(_, _)
Ranked(scored, k) ==
    IF k = 0 THEN <<>> ELSE RowsScoring(scored, k) \o Ranked(scored, k - 1)

RECURSIVE Scored(_, _)
Scored(rows, query) ==
    IF rows = <<>> THEN <<>>
    ELSE <<[score |-> RefScore(Head(rows), query), turn |-> Head(rows)]>>
             \o Scored(Tail(rows), query)

RefHits(rows, query, k) == \* the reference ranking of the claim
    CHOOSE ref \in {Ranked(Scored(rows, query), k)} : TRUE

MaxContentLen(rows) ==
    LET lens == {Len(rows[i].content) : i \in 1..Len(rows)} \cup {0}
    IN  CHOOSE n \in lens : \A m \in lens : m <= n

\* C10: keyword_search with a non-blank query and top_k >= 0 returns the first
\* top_k of the archived turns of score > 0, the score being the number of
\* non-overlapping occurrences of the trimmed, lowercased query in the lowercased
\* content, in descending score with equal scores in archive order; no turn of
\* score 0 is returned, and never more than top_k hits.
KeywordSearchIsTopKOfRanking ==
    (/\ StoreCall("keyword_search")
     /\ Strip(last.args.history_query) # <<>>
     /\ last.args.top_k >= 0
     /\ PreWritten.clean) =>
        \A ref \in {RefHits(PreWritten.turns, last.args.history_query,
                            MaxContentLen(PreWritten.turns))} :
            /\ last.ok
            /\ last.hits = SubSeq(ref, 1, Min(last.args.top_k, Len(ref)))
            /\ Len(last.hits) <= last.args.top_k
            /\ \A i \in 1..Len(last.hits) : last.hits[i].score > 0

\* C10's case: two archived turns, the second scoring more than the first, which
\* scores too; the search returned the second and top_k cut the first off
SearchReordersAndCuts ==
    /\ StoreCall("keyword_search") /\ last.ok
    /\ Len(PreWritten.turns) = 2
    /\ Len(last.hits) = 1 /\ last.args.top_k = 1
    /\ last.hits[1].turn = PreWritten.turns[2]
    /\ RefScore(PreWritten.turns[1], last.args.history_query) \in 1..(last.hits[1].score - 1)

\* the lines of a file json.loads decodes, as rows, in file order
ReadableRows(file) ==
    IF file = NoFile THEN <<>>
    ELSE LET ls == SelectSeq(Lines(file), LAMBDA l : loads(l).ok)
         IN  [i \in 1..Len(ls) |-> loads(ls[i]).row]

\* a file holding a line that decodes and a line that does not
MixedFile(file) ==
    /\ file # NoFile
    /\ \E i \in 1..Len(Lines(file)) : loads(Lines(file)[i]).ok
    /\ \E i \in 1..Len(Lines(file)) : ~loads(Lines(file)[i]).ok

\* C8: on an archive holding an unreadable record among readable ones, read_all
\* and keyword_search do not fail: read_all returns the readable records, all of
\* them, and keyword_search ranks them.
UnreadableRecordIsSkipped ==
    /\ (StoreCall("read_all") /\ MixedFile(PreFile)) =>
          last.ok /\ last.rows = ReadableRows(PreFile)
    /\ (StoreCall("keyword_search") /\ MixedFile(PreFile)
            /\ Strip(last.args.history_query) # <<>>) =>
          /\ last.ok
          /\ \A rows \in {ReadableRows(PreFile)} :
             \A ref \in {RefHits(rows, last.args.history_query, MaxContentLen(rows))} :
                 last.hits = SubSeq(ref, 1, Min(last.args.top_k, Len(ref)))

(***************************************************************************)
(* Concurrent append calls on the store.  append opens the file in mode    *)
(* "a" and takes no lock: the turns' lines are buffered and flushed at the *)
(* close, and a flush is a write that goes to the end of the file as the   *)
(* writer found it.  Where the platform makes the two one step, ConcWrite  *)
(* follows ConcSeek at once; where it does not, another writer may step in *)
(* between.                                                                *)
(***************************************************************************)
\* text put at offset pos of a file, over what was there
WriteAt(file, pos, text) ==
    Take(file, pos) \o text
        \o (IF Len(file) > pos + Len(text)
            THEN SubSeq(file, pos + Len(text) + 1, Len(file)) ELSE <<>>)

\* p.open("a") and the write loop: the file exists, the batch is in the buffer
ConcOpen(w, s, turns) ==
    /\ writers[w].pc = "idle"
    /\ made + Len(turns) <= MaxRecords
    /\ writers' = [writers EXCEPT ![w] = [pc |-> "buffered", session |-> s,
                                          turns |-> turns, pos |-> 0]]
    /\ files' = [files EXCEPT ![s] = IF @ = NoFile THEN <<>> ELSE @]
    /\ made' = made + Len(turns)
    /\ UNCHANGED <<cfg, active_turns, rolling_summary, fails, written, last>>

\* the flush at the close finds the end of the file
ConcSeek(w) ==
    /\ writers[w].pc = "buffered"
    /\ writers' = [writers EXCEPT ![w].pc = "placed",
                                  ![w].pos = Len(files[writers[w].session])]
    /\ UNCHANGED <<cfg, active_turns, rolling_summary, files, made, fails, written, last>>

\* the flush writes the buffer there, and append returns
ConcWrite(w) ==
    /\ writers[w].pc = "placed"
    /\ files' = [files EXCEPT ![writers[w].session] =
                    WriteAt(@, writers[w].pos, BatchText(writers[w].turns))]
    /\ written' = [written EXCEPT ![writers[w].session] =
                      Written(@, writers[w].turns, TRUE)]
    /\ writers' = [writers EXCEPT ![w] = Idle]
    /\ UNCHANGED <<cfg, active_turns, rolling_summary, made, fails, last>>

ConcNext ==
    \/ \E w \in Writers, s \in Sessions, n \in 0..Min(MaxBatch, MaxRecords - made) :
          \E turns \in Batches(n) : ConcOpen(w, s, turns)
    \/ \E w \in Writers : ConcSeek(w)
    \/ \E w \in Writers : ConcWrite(w)

ConcSpec == StoreInit /\ [][ConcNext]_vars

\* C11: when concurrent append calls on a session's archive have all returned,
\* the log holds whole records only, each equal to one appended turn, and every
\* appended turn exactly once, whatever the interleaving was.
ConcurrentAppendsKeepRecordsWhole ==
    (\A w \in Writers : writers[w].pc = "idle") =>
        \A s \in Sessions :
            \A r \in {read_all(files[s])} :
                /\ r.ok
                /\ Len(r.rows) = Len(written[s].turns)
                /\ \A i \in 1..Len(written[s].turns) :
                      Cardinality({j \in 1..Len(r.rows) :
                                      SameTurn(r.rows[j], written[s].turns[i])}) = 1

(***************************************************************************)
(* Claims about the manager, checked under Spec.                           *)
(***************************************************************************)
BuildCall == last.op = "build_messages"

BuildOk == BuildCall /\ last.ok

\* the manager's session before the call and now
PreArchive == last.pre.files[session_id]

Archive == files[session_id]

PreArchived == last.pre.written[session_id]

Archived == written[session_id]

\* the rough estimate of the claims: max(1, len(content) // 4) a turn, summed
RECURSIVE RoughSum(_)
RoughSum(turns) ==
    IF turns = <<>> THEN 0
    ELSE (IF Len(Head(turns).content) < 8 THEN 1 ELSE Len(Head(turns).content) \div 4)
             + RoughSum(Tail(turns))

\* the active-turn messages of a returned sequence: the user and assistant
\* messages before the closing user message
TurnMessages(msgs) ==
    SelectSeq(SubSeq(msgs, 1, Len(msgs) - 1), LAMBDA m : m.role \in Roles)

\* C1: every build_messages call that returns hands back an active set within the
\* budget (max_turns >= 1, max_tokens >= 1): at most max_turns active-turn
\* messages, their summed rough estimate at most max_tokens.
ActiveSetWithinBudget ==
    (BuildOk /\ cfg.max_turns >= 1 /\ cfg.max_tokens >= 1) =>
        /\ Len(TurnMessages(last.messages)) <= cfg.max_turns
        /\ RoughSum(TurnMessages(last.messages)) <= cfg.max_tokens
        /\ Len(active_turns) <= cfg.max_turns
        /\ RoughSum(active_turns) <= cfg.max_tokens

\* C1's case: a call that started over the token budget and below max_turns, and
\* returned no active turn
OverBudgetBuildReturned ==
    /\ BuildOk
    /\ Len(last.pre.active_turns) < cfg.max_turns
    /\ RoughSum(last.pre.active_turns) > cfg.max_tokens
    /\ TurnMessages(last.messages) = <<>>

\* C2: a returned sequence is, in this order: the system message with the trimmed
\* system_prompt; the rolling-summary system message iff the summary is not blank;
\* one message per active turn, in insertion order, with its role and content; the
\* history system message iff a hit was found; the user message with user_message.
MessageOrder ==
    BuildOk =>
        LET m == last.messages
            hasSummary == Strip(rolling_summary) # <<>>
            hasHistory == last.hits # <<>>
            n == Len(active_turns)
            off == IF hasSummary THEN 2 ELSE 1
        IN  /\ Len(m) = off + n + (IF hasHistory THEN 1 ELSE 0) + 1
            /\ m[1] = [role |-> System, content |-> Strip(last.args.system_prompt)]
            /\ hasSummary =>
                  /\ m[2].role = System
                  /\ m[2].content = <<SummaryPrefix>> \o Strip(rolling_summary)
            /\ \A i \in 1..n :
                  m[off + i] = [role |-> active_turns[i].role,
                                content |-> active_turns[i].content]
            /\ hasHistory =>
                  /\ m[off + n + 1].role = System
                  /\ Head(m[off + n + 1].content) = HistoryPrefix
            /\ m[Len(m)] = [role |-> User, content |-> last.args.user_message]
            /\ \A i \in 1..Len(m) :
                  /\ (m[i].content # <<>> /\ Head(m[i].content) = SummaryPrefix)
                        => hasSummary /\ i = 2
                  /\ (m[i].content # <<>> /\ Head(m[i].content) = HistoryPrefix)
                        => hasHistory /\ i = Len(m) - 1

\* C2's case: a returned sequence with all five parts
AllPartsPresent ==
    /\ BuildOk
    /\ Strip(rolling_summary) # <<>>
    /\ active_turns # <<>>
    /\ Len(last.hits) = 2
    /\ Len(last.messages) = 4 + Len(active_turns)

\* the call archived the active turns it started with, all of them, in order, and
\* nothing else
ArchiveGainedActive ==
    /\ Archived.turns = PreArchived.turns \o last.pre.active_turns
    /\ Archive = (IF PreArchive = NoFile THEN <<>> ELSE PreArchive)
                     \o Concat([i \in 1..Len(last.pre.active_turns) |->
                                   dumps(last.pre.active_turns[i]) \o <<"\n">>])
    /\ \A before \in {read_all(PreArchive)} :
          before.ok => read_all(Archive) =
                           [ok |-> TRUE, rows |-> before.rows \o last.pre.active_turns]

\* the call left the archive, the active set and the rolling summary alone and
\* did not call the summarizer
NothingCompacted ==
    /\ files = last.pre.files
    /\ active_turns = last.pre.active_turns
    /\ rolling_summary = last.pre.rolling_summary
    /\ last.calls = <<>>

\* C3: with max_turns = N >= 1, a build_messages call that returns after exactly N
\* turns were added to an empty active set compacts: the ledger counts 0 active
\* turns, the active set is empty and the archive has gained those N turns, in the
\* order they were added, and nothing else.
TurnThresholdCompacts ==
    (BuildOk /\ cfg.max_turns >= 1 /\ Len(last.pre.active_turns) = cfg.max_turns) =>
        /\ last.ledger.included_active_turns = 0
        /\ active_turns = <<>>
        /\ ArchiveGainedActive

\* C3's case: N = 2 turns, below the token threshold, compacted into a new archive
TurnThresholdReached ==
    /\ BuildOk
    /\ cfg.max_turns = 2 /\ Len(last.pre.active_turns) = 2
    /\ RoughSum(last.pre.active_turns) < cfg.max_tokens
    /\ Len(Archived.turns) = 2
    /\ active_turns = <<>>

\* C4: while the turn count is below max_turns, a build_messages call compacts
\* exactly when the summed rough estimate has reached max_tokens: below it the
\* call archives nothing and leaves the active set alone; at or above it the call
\* compacts (add_user and add_assistant archive nothing, so the build_messages
\* call after the turn that meets the threshold is where the compaction happens).
TokenThresholdExact ==
    /\ (BuildCall /\ Len(last.pre.active_turns) < cfg.max_turns) =>
          /\ RoughSum(last.pre.active_turns) < cfg.max_tokens => NothingCompacted
          /\ (RoughSum(last.pre.active_turns) >= cfg.max_tokens /\ last.ok) =>
                /\ active_turns = <<>>
                /\ Len(last.calls) = 1
                /\ ArchiveGainedActive
    /\ last.op \in {"add_user", "add_assistant"} => files = last.pre.files

\* C4's case: the estimate met max_tokens exactly, at the second turn, with the
\* turn count below max_turns, and the call compacted
TokenThresholdFirstMet ==
    /\ BuildOk
    /\ Len(last.pre.active_turns) = 2 /\ cfg.max_turns > 2
    /\ RoughSum(last.pre.active_turns) = cfg.max_tokens
    /\ RoughSum(SubSeq(last.pre.active_turns, 1, 1)) < cfg.max_tokens
    /\ active_turns = <<>>

\* C5: the ledger of a returned call counts the active-turn messages of the
\* returned sequence, which are the active set the call leaves.
LedgerTruthful ==
    BuildOk =>
        /\ last.ledger.included_active_turns = Len(TurnMessages(last.messages))
        /\ last.ledger.included_active_turns = Len(active_turns)

\* C5's case: a call that returned an active turn, beside a summary and history
LedgerCountsActiveTurns ==
    /\ BuildOk
    /\ last.ledger.included_active_turns = 1
    /\ last.ledger.included_summary
    /\ last.ledger.included_history_hits > 0

\* the call started with active turns that an earlier, failed compaction archived
RetryAfterSummarizerFailure ==
    /\ BuildCall
    /\ last.pre.active_turns # <<>>
    /\ \E i \in 1..Len(PreArchived.turns) : PreArchived.turns[i] = last.pre.active_turns[1]

\* C6: when the summarizer fails during compaction the call raises and returns no
\* messages, the rolling summary is as before the call, the active set is whole
\* (as before, or empty), and the archive holds what it held and the turns of the
\* call, in whole records; a retry that returns leaves the summary a reply of the
\* summarizer, cut and stripped, the active set empty and every turn archived,
\* and returns messages and a ledger that agree with that state.
SummarizerFailureLeavesState ==
    /\ (BuildCall /\ last.err = "summarizer") =>
          /\ ~last.ok /\ last.messages = <<>> /\ last.ledger = NoLedger
          /\ rolling_summary = last.pre.rolling_summary
          /\ active_turns \in {last.pre.active_turns, <<>>}
          /\ Len(last.calls) = 1
          /\ ArchiveGainedActive
    /\ (RetryAfterSummarizerFailure /\ last.ok) =>
          /\ active_turns = <<>>
          /\ \E t \in LlmOutputs :
                rolling_summary = Strip(SubSeq(Strip(t), 1, Min(cfg.summary_max_chars, Len(Strip(t)))))
          /\ \A i \in 1..Len(last.pre.active_turns) :
                \E j \in 1..Len(Archived.turns) : Archived.turns[j] = last.pre.active_turns[i]
          /\ read_all(PreArchive).ok => read_all(Archive).ok
          /\ last.messages[1].role = System
          /\ last.messages[Len(last.messages)] = [role |-> User, content |-> last.args.user_message]
          /\ TurnMessages(last.messages) = <<>>
          /\ last.ledger.included_active_turns = 0
          /\ last.ledger.included_summary = (rolling_summary # <<>>)

\* C6's case: the summarizer failed with a summary already stored
SummarizerFailed ==
    /\ BuildCall /\ last.err = "summarizer"
    /\ last.pre.rolling_summary # <<>>
    /\ Len(last.pre.active_turns) = 2

\* C7: when the archive append fails during compaction (also after part of the
\* batch was written) the call raises and returns no messages, the active set is
\* not cleared, the summarizer is not called and the rolling summary is as before.
AppendFailureKeepsActive ==
    (BuildCall /\ last.err = "append") =>
        /\ ~last.ok /\ last.messages = <<>> /\ last.ledger = NoLedger
        /\ active_turns = last.pre.active_turns /\ active_turns # <<>>
        /\ last.calls = <<>>
        /\ rolling_summary = last.pre.rolling_summary
        /\ Archived.turns = PreArchived.turns

\* C7's case: the append failed after the first record of a batch of two was written
AppendFailedAfterPrefix ==
    /\ BuildCall /\ last.err = "append"
    /\ Len(last.pre.active_turns) = 2
    /\ Archive = (IF PreArchive = NoFile THEN <<>> ELSE PreArchive)
                     \o dumps(last.pre.active_turns[1]) \o <<"\n">>

\* C12: compaction of an empty active set is a no-op: a build_messages call that
\* reaches _compact with no active turn (a threshold of 0) leaves rolling_summary
\* and every archive as they were, does not call the summarizer, and no error
\* comes out of the compaction.
EmptyCompactIsNoOp ==
    (BuildCall /\ last.pre.active_turns = <<>> /\ _should_compact(<<>>, cfg)) =>
        /\ rolling_summary = last.pre.rolling_summary
        /\ files = last.pre.files
        /\ active_turns = <<>>
        /\ last.calls = <<>>
        /\ last.err \notin {"append", "summarizer"}
        /\ \A io \in IoOutcomes(<<>>), llm \in LlmOutcomes :
              \A c \in {_compact(<<>>, rolling_summary, Archive, cfg, io, llm)} :
                  /\ c.ok /\ c.calls = <<>>
                  /\ c.rolling_summary = rolling_summary /\ c.file = Archive

\* C12's case: a returned call found the thresholds met and no active turn, with
\* a summary stored and an archive written by an earlier compaction
EmptyCompactReached ==
    /\ BuildOk
    /\ last.pre.active_turns = <<>> /\ _should_compact(<<>>, cfg)
    /\ last.pre.rolling_summary # <<>>
    /\ PreArchive # NoFile

\* the summarizer call of the last build_messages call returned: its compaction
\* went through
Compacted == BuildCall /\ last.calls # <<>> /\ last.calls[1].returned.ok

\* C13: in every reachable state the rolling summary is at most summary_max_chars
\* characters long (summary_max_chars >= 0) and has no whitespace at either end;
\* a compaction that goes through replaces it with the summarizer's result cut to
\* summary_max_chars and then stripped, whatever the summary was before.
SummaryCappedAndReplaced ==
    /\ cfg.summary_max_chars >= 0 => Len(rolling_summary) <= cfg.summary_max_chars
    /\ rolling_summary # <<>> =>
          ~IsSpace(rolling_summary[1]) /\ ~IsSpace(rolling_summary[Len(rolling_summary)])
    /\ Compacted =>
          rolling_summary =
              Strip(SubSeq(last.calls[1].returned.text, 1,
                           Min(cfg.summary_max_chars, Len(last.calls[1].returned.text))))
    /\ (BuildCall /\ ~Compacted) => rolling_summary = last.pre.rolling_summary

\* C13's case: a compaction replaced a summary that was not empty by a result
\* longer than summary_max_chars, whose cut ends in whitespace
SummaryCutAndReplaced ==
    /\ Compacted
    /\ last.pre.rolling_summary # <<>>
    /\ Len(last.calls[1].returned.text) > cfg.summary_max_chars
    /\ IsSpace(last.calls[1].returned.text[cfg.summary_max_chars])
    /\ rolling_summary # <<>>

\* a history query that is absent, empty or whitespace only
BlankQuery(q) == q = None \/ Strip(q) = <<>>

HasHistoryMessage(msgs) ==
    \E i \in 1..Len(msgs) : msgs[i].content # <<>> /\ msgs[i].content[1] = HistoryPrefix

\* C14: keyword_search with an empty or whitespace-only query returns no hit
\* without reading the archive (so also on an archive that cannot be read), and a
\* build_messages call whose history_query is absent, empty or whitespace only
\* retrieves no history: no 'Potentially relevant history' message, and
\* included_history_hits = 0, whatever the archive holds.
BlankQueryFindsNothing ==
    /\ \A q \in {<<>>, <<" ">>, <<" ", " ">>} :
          keyword_search(Archive, q, cfg.search_top_k) = [ok |-> TRUE, hits |-> <<>>]
    /\ (BuildCall /\ BlankQuery(last.args.history_query)
            /\ last.err \notin {"append", "summarizer"}) =>
          /\ last.ok
          /\ last.hits = <<>>
          /\ last.ledger.included_history_hits = 0
          /\ ~HasHistoryMessage(last.messages)

\* C14's case: a call with a whitespace-only query returned on an archive that
\* cannot be read
BlankQueryOnUnreadableArchive ==
    /\ BuildOk
    /\ last.args.history_query = <<" ">>
    /\ ~read_all(Archive).ok

\* the ids of a sequence of turns or rows
Ids(turns) == {turns[i].id : i \in 1..Len(turns)}

\* C15: between public operations every turn id is owned by one place: no turn
\* is in the active set and in the session's archive at once, and no turn id is
\* in the archive more than once, also after a compaction that failed and was
\* retried.
ExclusiveOwnership ==
    \A rows \in {ReadableRows(Archive)} :
        /\ Ids(active_turns) \cap Ids(rows) = {}
        /\ \A i, j \in 1..Len(rows) : rows[i].id = rows[j].id => i = j

AddCall == last.op \in {"add_user", "add_assistant"}

\* C16: add_user and add_assistant only append: the call puts one new turn, with
\* the role of the operation, the given content and an id no earlier turn has, at
\* the end of the active set, leaves the earlier active turns and their order as
\* they were, compacts nothing even when the set was at or above a threshold, and
\* leaves the rolling summary and the archives as they were.
AddOnlyAppends ==
    AddCall =>
        /\ Len(active_turns) = Len(last.pre.active_turns) + 1
        /\ SubSeq(active_turns, 1, Len(active_turns) - 1) = last.pre.active_turns
        /\ \A t \in {active_turns[Len(active_turns)]} :
              /\ t.role = (IF last.op = "add_user" THEN User ELSE Assistant)
              /\ t.content = last.args.content
              /\ t.id \notin Ids(last.pre.active_turns) \cup Ids(PreArchived.turns)
        /\ rolling_summary = last.pre.rolling_summary
        /\ files = last.pre.files
        /\ written = last.pre.written
        /\ last.ok /\ last.calls = <<>>

\* C16's case: a turn was added to an active set that had already met a
\* threshold, with turns of the session archived before
AddedAtThreshold ==
    /\ AddCall
    /\ last.pre.active_turns # <<>>
    /\ _should_compact(last.pre.active_turns, cfg)
    /\ PreArchived.turns # <<>>

\* C17: a compaction of a non-empty active set of n turns appends all n turns to
\* the archive in order and calls the summarizer once, with the rolling summary
\* as it was and the last min(n, 10) active turns in order; the append comes
\* before the summarizer's call (a failed append means no call, a failed call
\* finds the turns archived), and the active set is cleared only when the
\* summarizer has returned and the summary is stored.
CompactionArchivesAllSummarizesRecent ==
    (BuildCall /\ last.pre.active_turns # <<>>
        /\ _should_compact(last.pre.active_turns, cfg)) =>
        \A n \in {Len(last.pre.active_turns)} :
            /\ last.err = "append" =>
                  /\ last.calls = <<>>
                  /\ active_turns = last.pre.active_turns
                  /\ rolling_summary = last.pre.rolling_summary
            /\ last.err # "append" =>
                  /\ Archived.turns = PreArchived.turns \o last.pre.active_turns
                  /\ PreArchived.clean =>
                        ReadableRows(Archive)
                            = ReadableRows(PreArchive) \o last.pre.active_turns
                  /\ Len(last.calls) = 1
                  /\ last.calls[1].previous_summary = last.pre.rolling_summary
                  /\ Len(last.calls[1].recent_turns) = (IF n <= 10 THEN n ELSE 10)
                  /\ last.calls[1].recent_turns
                        = SubSeq(last.pre.active_turns,
                                 n - Len(last.calls[1].recent_turns) + 1, n)
                  /\ active_turns = <<>> <=> last.calls[1].returned.ok
                  /\ active_turns # <<>> =>
                        /\ active_turns = last.pre.active_turns
                        /\ rolling_summary = last.pre.rolling_summary

\* C17's case: a compaction of more than 10 active turns went through, the
\* summarizer given the final 10 of them
CompactedMoreThanWindow ==
    /\ Compacted
    /\ Len(last.pre.active_turns) > 10
    /\ Len(last.calls[1].recent_turns) = 10
    /\ last.calls[1].recent_turns[1] = last.pre.active_turns[Len(last.pre.active_turns) - 9]
    /\ ReadableRows(Archive) = last.pre.active_turns

HasSummaryMessage(msgs) ==
    \E i \in 1..Len(msgs) : msgs[i].content # <<>> /\ msgs[i].content[1] = SummaryPrefix

\* C18: a build_messages call that compacts retrieves its history from the
\* archive that already holds the turns the call archived (whole, when no append
\* on it has failed), and assembles the messages and the ledger from the state
\* after the compaction: the new rolling summary, and no active turn.
BuildReflectsCompaction ==
    (BuildOk /\ Compacted) =>
        /\ Archived.clean =>
              Ids(last.pre.active_turns) \subseteq Ids(ReadableRows(Archive))
        /\ ~BlankQuery(last.args.history_query) =>
              \A rows \in {ReadableRows(Archive)} :
              \A ref \in {RefHits(rows, last.args.history_query, MaxContentLen(rows))} :
                  last.hits = SubSeq(ref, 1, Min(cfg.search_top_k, Len(ref)))
        /\ HasHistoryMessage(last.messages) <=> last.hits # <<>>
        /\ last.ledger.included_history_hits = Len(last.hits)
        /\ TurnMessages(last.messages) = <<>>
        /\ last.ledger.included_active_turns = 0
        /\ last.ledger.included_summary <=> rolling_summary # <<>>
        /\ HasSummaryMessage(last.messages) <=> rolling_summary # <<>>
        /\ rolling_summary # <<>> =>
              last.messages[2] = Msg(System, <<SummaryPrefix>> \o rolling_summary)

\* C18's case: the call compacted, a turn it archived came back as a history hit
\* of the same call, and the summary message carries a summary the call stored
CompactedTurnIsHit ==
    /\ BuildOk /\ Compacted
    /\ \E i \in 1..Len(last.hits) : last.hits[i].turn.id \in Ids(last.pre.active_turns)
    /\ last.pre.rolling_summary = <<>> /\ rolling_summary # <<>>
    /\ HasSummaryMessage(last.messages)

\* the ids of a sequence of turns or rows, in order
IdSeq(turns) == [i \in 1..Len(turns) |-> turns[i].id]

\* C19: no turn is ever lost: every turn added so far is in the active set or a
\* record of the session's archive, also after failed appends and failed
\* summarizer calls; and while no operation has failed, the archive's records
\* followed by the active set are the turns added, in the order they were added.
NoTurnLost ==
    \A rows \in {ReadableRows(Archive)} :
        /\ \A k \in 1..made : IdOf(k) \in Ids(active_turns) \cup Ids(rows)
        /\ fails = 0 => IdSeq(rows \o active_turns) = [k \in 1..made |-> IdOf(k)]

\* the last call was a build_messages call that found no threshold met
BuildWithoutCompaction ==
    BuildCall /\ ~_should_compact(last.pre.active_turns, cfg)

BuildLeavesState ==
    BuildWithoutCompaction =>
        /\ active_turns = last.pre.active_turns
        /\ rolling_summary = last.pre.rolling_summary
        /\ files = last.pre.files
        /\ written = last.pre.written
        /\ last.calls = <<>>
        /\ \A i \in 1..Len(active_turns) :
              active_turns[i].content # last.args.user_message

RepeatedBuildAgrees ==
    (BuildWithoutCompaction /\ last'.op = "build_messages" /\ last'.args = last.args) =>
        /\ last'.ok = last.ok
        /\ last'.messages = last.messages
        /\ last'.ledger = last.ledger
        /\ last'.hits = last.hits

\* C20: a build_messages call made while no threshold is met reads only: the
\* active set, the rolling summary and the archives are after the call what they
\* were before it, user_message is not recorded as a turn, and a second such call
\* with the same arguments right after it returns the same messages and ledger.
BuildWithoutCompactionReadsOnly ==
    []BuildLeavesState /\ [][RepeatedBuildAgrees]_vars

\* C20's case: a call that found no threshold met returned active turns and
\* history hits, with a summary stored and an archive written
BuildReadState ==
    /\ BuildOk /\ BuildWithoutCompaction
    /\ active_turns # <<>> /\ rolling_summary # <<>> /\ last.hits # <<>>
    /\ Archive # NoFile

====
